---- MODULE Spec2Model ----
(***************************************************************************)
(* Cross-zone version reconciliation of ceph-rgw-multisite-ui              *)
(* (backend/app.py, backend/s3_utils.py, backend/config.py).               *)
(*                                                                         *)
(* Python values are represented as follows.                               *)
(*   None / a missing dict key : <<>>        (None)                        *)
(*   a present value v         : <<v>>       (Some(v))                     *)
(*   a datetime                : a number of sub-second ticks since an     *)
(*                               epoch, TicksPerSecond ticks to a second   *)
(*   an ETag string            : a sequence of characters, "q" standing    *)
(*                               for the double-quote character            *)
(*   a dict with insertion order (per_zone) : a sequence of records, one   *)
(*                               per key, in first-insertion order         *)
(* The fields VersionId and Size of a store record are copied to the       *)
(* output unread by any decision and are left out. Building the client     *)
(* (get_s3_client) is taken to succeed; the store call that follows it may *)
(* answer, raise ClientError, or raise anything else.                      *)
(***************************************************************************)
EXTENDS Integers, Sequences, FiniteSets, TLC

\* ------------------------------------------------------------------ bounds
MaxZones == 2
MaxTick == 2
TicksPerSecond == 2
MaxRecs == 1
SelMaxRecs == 2

\* ------------------------------------------------------------ Python values
None == <<>>
Some(v) == <<v>>
IsSome(o) == o # <<>>
Val(o) == o[1]

Range(s) == {s[i] : i \in 1..Len(s)}

RECURSIVE lstrip(_)
lstrip(s) == IF s # <<>> /\ Head(s) = "q" THEN lstrip(Tail(s)) ELSE s

RECURSIVE rstrip(_)
rstrip(s) == IF s # <<>> /\ s[Len(s)] = "q" THEN rstrip(SubSeq(s, 1, Len(s) - 1)) ELSE s

\* str.strip('"')
strip(s) == rstrip(lstrip(s))

\* ------------------------------------------------------------- config.py
\* The comma-separated parts of the S3_ZONES setting. A part is written
\* name=url ("named"), is a bare url ("bare"), or is blank ("blank").
\* urlparse(url).hostname, already split on "."; <<>> when urlparse finds none
\* (a url written without a scheme has no network location).
hostname(url) ==
    CASE url = "https://ceph-zone1.example.com" -> <<"ceph-zone1", "example", "com">>
      [] url = "https://ceph-zone2.example.com" -> <<"ceph-zone2", "example", "com">>
      [] url = "https://ceph.site3.example.com" -> <<"ceph", "site3", "example", "com">>
      [] url = "https://ceph.site4.example.com:8443" -> <<"ceph", "site4", "example", "com">>
      [] OTHER -> <<>>

\* f"zone{n}"
zoneN(n) ==
    CASE n = 1 -> "zone1" [] n = 2 -> "zone2" [] n = 3 -> "zone3"
      [] n = 4 -> "zone4" [] OTHER -> "zone5"

NamedPart(name, url) == [kind |-> "named", name |-> name, url |-> url]
BarePart(url) == [kind |-> "bare", name |-> "", url |-> url]
BlankPart == [kind |-> "blank", name |-> "", url |-> ""]

RECURSIVE parse_from(_, _, _)
parse_from(parts, zones, unnamed) ==
    IF parts = <<>> THEN zones
    ELSE LET p == Head(parts) IN
         IF p.kind = "blank" THEN parse_from(Tail(parts), zones, unnamed)
         ELSE IF p.kind = "named"
              THEN parse_from(Tail(parts),
                              Append(zones, [name |-> p.name, url |-> p.url]),
                              unnamed)
              ELSE LET host == hostname(p.url)
                       name == IF host # <<>> THEN host[1] ELSE zoneN(unnamed + 1)
                   IN parse_from(Tail(parts),
                                 Append(zones, [name |-> name, url |-> p.url]),
                                 unnamed + 1)

_parse_zones(raw) == parse_from(raw, <<>>, 0)

\* The S3_ZONES settings of the example deployment, one per number of zones:
\* the first n parts of a setting that mixes the two accepted spellings.
ExampleParts ==
    <<NamedPart("zone-a", "https://ceph-zone1.example.com"),
      BarePart("https://ceph-zone2.example.com"),
      BarePart("ceph-zone3.example.com"),
      NamedPart("zone-d", "https://ceph.site4.example.com:8443"),
      BarePart("ceph-zone5.example.com")>>

ExampleSettings == {SubSeq(ExampleParts, 1, n) : n \in 1..MaxZones}

\* Every setting of at most MaxZones parts over a few parts, two of which
\* yield the same zone name.
SettingParts ==
    {NamedPart("ceph", "https://ceph-zone1.example.com"),
     BarePart("https://ceph.site3.example.com"),
     BarePart("ceph-zone3.example.com"),
     BlankPart}

AllSettings ==
    {s \in UNION {[1..n -> SettingParts] : n \in 1..MaxZones} : _parse_zones(s) # <<>>}

\* ------------------------------------------------------------ the store
\* What list_object_versions(Bucket, Prefix=key) can answer. A datetime is a
\* tick; a record of the Versions list carries an ETag, a record of the
\* DeleteMarkers list carries none.
Ticks == 0..MaxTick
Keys == {"a", "a/b"}
ETags == {<<"q", "a", "q">>, <<"a">>, <<"q", "b", "q">>}

\* The keys a prefix query for `key` can return: those starting with it.
KeysWithPrefix(key) == IF key = "a" THEN {"a", "a/b"} ELSE {"a/b"}

\* `flags` are the values the store gives IsLatest.
VersionRecords(key, flags) ==
    [Key : KeysWithPrefix(key), LastModified : Ticks, ETag : {Some(e) : e \in ETags},
     IsLatest : flags]

MarkerRecords(key, flags) ==
    [Key : KeysWithPrefix(key), LastModified : Ticks, ETag : {None}, IsLatest : flags]

\* The answers holding at most n records in all.
StoreResponses(key, n, flags) ==
    UNION {[Versions : [1..k -> VersionRecords(key, flags)],
            DeleteMarkers : [1..m -> MarkerRecords(key, flags)]] :
             <<k, m>> \in {p \in (0..n) \X (0..n) : p[1] + p[2] <= n}}

\* e.response of a ClientError: the Error dict may be missing, and so may its
\* Message; the store may send an empty Message.
ErrorResponses ==
    {[Error |-> None],
     [Error |-> Some([Message |-> None])],
     [Error |-> Some([Message |-> Some("")])],
     [Error |-> Some([Message |-> Some("AccessDenied")])]}

\* ----------------------------------------------------------- s3_utils.py
\* dt.replace(microsecond=0).isoformat(): the text of the whole second.
format_datetime_iso(dt) == [iso_second |-> dt \div TicksPerSecond]

find_zone_url(zones, name) ==
    IF \E i \in 1..Len(zones) : zones[i].name = name
    THEN [status |-> 200,
          url |-> zones[CHOOSE i \in 1..Len(zones) :
                            /\ zones[i].name = name
                            /\ \A j \in 1..(i - 1) : zones[j].name # name].url]
    ELSE [status |-> 404, url |-> ""]

\* sorted(versions, key=LastModified, reverse=True): Python's sort is stable,
\* also when reversed, so equal timestamps keep their order in the list.
RECURSIVE insert_desc(_, _)
insert_desc(sorted, v) ==
    IF sorted = <<>> THEN <<v>>
    ELSE IF Head(sorted).LastModified >= v.LastModified
         THEN <<Head(sorted)>> \o insert_desc(Tail(sorted), v)
         ELSE <<v>> \o sorted

RECURSIVE sorted_desc(_)
sorted_desc(versions) ==
    IF versions = <<>> THEN <<>>
    ELSE insert_desc(sorted_desc(SubSeq(versions, 1, Len(versions) - 1)),
                     versions[Len(versions)])

latest_entry_for_key(versions) ==
    IF versions = <<>> THEN None ELSE Some(sorted_desc(versions)[1])

entry_to_brief(entry) ==
    IF entry = None THEN None
    ELSE LET e == Val(entry) IN
         Some([type |-> IF e.IsDeleteMarker THEN "DeleteMarker" ELSE "Version",
               etag |-> IF IsSome(e.ETag) /\ Val(e.ETag) # <<>>
                        THEN Some(strip(Val(e.ETag))) ELSE None,
               last_modified |-> format_datetime_iso(e.LastModified),
               is_latest |-> e.IsLatest])

\* A slip: the last of the maximal candidates is kept (max written as a loop
\* with >=).
find_best_version_last_max(candidates, ignore_delete_markers) ==
    LET valid_candidates ==
            SelectSeq(candidates,
                      LAMBDA c : ~(ignore_delete_markers /\ c.entry.IsDeleteMarker))
        n == Len(valid_candidates)
    IN IF n = 0 THEN None
       ELSE Some(valid_candidates[
                CHOOSE i \in 1..n :
                    /\ \A j \in 1..n :
                          valid_candidates[j].entry.LastModified
                              <= valid_candidates[i].entry.LastModified
                    /\ \A j \in (i + 1)..n :
                          valid_candidates[j].entry.LastModified
                              < valid_candidates[i].entry.LastModified])

\* A slip: ignore_delete_markers is not honoured.
find_best_version_keep_markers(candidates, ignore_delete_markers) ==
    LET n == Len(candidates)
    IN IF n = 0 THEN None
       ELSE Some(candidates[
                CHOOSE i \in 1..n :
                    /\ \A j \in 1..n :
                          candidates[j].entry.LastModified <= candidates[i].entry.LastModified
                    /\ \A j \in 1..(i - 1) :
                          candidates[j].entry.LastModified < candidates[i].entry.LastModified])

\* max(valid_candidates, key=LastModified): the first of the maximal ones.
\* Every record the store sends carries LastModified, and a datetime is true,
\* so the test entry.get("LastModified") drops nothing.
find_best_version(candidates, ignore_delete_markers) ==
    LET valid_candidates ==
            SelectSeq(candidates,
                      LAMBDA c : ~(ignore_delete_markers /\ c.entry.IsDeleteMarker))
        n == Len(valid_candidates)
    IN IF n = 0 THEN None
       ELSE Some(valid_candidates[
                CHOOSE i \in 1..n :
                    /\ \A j \in 1..n :
                          valid_candidates[j].entry.LastModified
                              <= valid_candidates[i].entry.LastModified
                    /\ \A j \in 1..(i - 1) :
                          valid_candidates[j].entry.LastModified
                              < valid_candidates[i].entry.LastModified])

\* ----------------------------------------------------------------- app.py
VARIABLES
    S3_ZONES,           \* config.S3_ZONES: the parsed zone registry
    DEFAULT_BUCKET,     \* config.DEFAULT_BUCKET: os.getenv("BUCKET"), may be None
    pc,                 \* "idle" | "fetch" (in the zone loop) | "done" | "raised"
    request,            \* the request being served: its route and parameters
    idx,                \* consistency_check: position of the zone loop in S3_ZONES
    per_zone,           \* consistency_check: the per_zone dict
    latest_candidates,  \* consistency_check: the (zone, entry) list
    global_latest,      \* consistency_check: find_best_version(latest_candidates)
    response,           \* what the route answered: None while it runs
    fetch_log,          \* history: what the store did for each zone, by position
    sel                 \* the per-zone selection taken alone (SpecSel)

vars == <<S3_ZONES, DEFAULT_BUCKET, pc, request, idx, per_zone, latest_candidates,
          global_latest, response, fetch_log, sel>>

RequestKey == "a"
UnknownZone == "no-such-zone"

ZoneNames(zones) == {zones[i].name : i \in 1..Len(zones)}

\* The zone names and the buckets a caller may send.
RequestZones == ZoneNames(S3_ZONES) \cup {UnknownZone}
RequestBuckets == {None, Some("other-bucket")}

\* Python's truth of an optional string: None and "" are false.
truthy(o) == IsSome(o) /\ Val(o) # ""

\* bucket or DEFAULT_BUCKET
bucket_or_default(bucket) == IF truthy(bucket) THEN bucket ELSE DEFAULT_BUCKET

Reply(status, body) == Some([status |-> status, body |-> body])

NoBucket == Reply(400, [detail |-> "Missing 'bucket' and no BUCKET default set."])

\* dict[key] = value: a new key is appended, an existing key keeps its place.
dict_set(d, key, value) ==
    IF \E i \in 1..Len(d) : d[i].zone = key
    THEN [i \in 1..Len(d) |-> IF d[i].zone = key THEN value ELSE d[i]]
    ELSE Append(d, value)

\* dict.get(key)
dict_get(d, key) ==
    IF \E i \in 1..Len(d) : d[i].zone = key
    THEN Some(d[CHOOSE i \in 1..Len(d) : d[i].zone = key])
    ELSE None

tag(records, is_delete_marker) ==
    [i \in 1..Len(records) |->
        [Key |-> records[i].Key, LastModified |-> records[i].LastModified,
         ETag |-> records[i].ETag, IsLatest |-> records[i].IsLatest,
         IsDeleteMarker |-> is_delete_marker]]

\* A slip: the records of longer keys that the prefix query returns are kept.
versions_of_key_by_prefix(resp, key) ==
    tag(resp.Versions, FALSE) \o tag(resp.DeleteMarkers, TRUE)

\* app.py 132-138: the two lists tagged, merged and cut down to the exact key.
versions_of_key(resp, key) ==
    LET obj_versions == tag(resp.Versions, FALSE)
        del_markers == tag(resp.DeleteMarkers, TRUE)
    IN SelectSeq(obj_versions \o del_markers, LAMBDA v : v.Key = key)

\* app.py 140
zone_latest(resp, key) == latest_entry_for_key(versions_of_key(resp, key))

\* e.response.get("Error", {}).get("Message", "S3 Error")
error_message(e_response) ==
    IF IsSome(e_response.Error) /\ IsSome(Val(e_response.Error).Message)
    THEN Val(Val(e_response.Error).Message)
    ELSE "S3 Error"

\* A slip: the flag is read off any zone's latest entry.
current_zone_flag_any_zone(pz, currentZone) ==
    \E i \in 1..Len(pz) : IsSome(pz[i].latest) /\ Val(pz[i].latest).type = "DeleteMarker"

\* app.py 161-163
current_zone_flag(pz, currentZone) ==
    LET current_zone_info == dict_get(pz, currentZone)
        current_latest == IF IsSome(current_zone_info)
                          THEN Val(current_zone_info).latest ELSE None
    IN IsSome(current_latest) /\ Val(current_latest).type = "DeleteMarker"

\* A slip: a zone without an entry is Missing whatever the global latest is.
zone_state_always_missing(info, global_latest_is_delete, comparator_ts) ==
    IF truthy(info.error) THEN "Unknown"
    ELSE IF info.latest = None THEN "Missing"
         ELSE IF IsSome(comparator_ts)
                 /\ Val(info.latest).last_modified = Val(comparator_ts)
              THEN "Latest" ELSE "Outdated"

\* app.py 170-181
zone_state(info, global_latest_is_delete, comparator_ts) ==
    IF truthy(info.error) THEN "Unknown"
    ELSE IF info.latest = None
         THEN (IF global_latest_is_delete THEN "Latest" ELSE "Missing")
         ELSE IF IsSome(comparator_ts)
                 /\ Val(info.latest).last_modified = Val(comparator_ts)
              THEN "Latest" ELSE "Outdated"

\* app.py 169-188
classify(pz, global_latest_is_delete, comparator_ts) ==
    [i \in 1..Len(pz) |->
        [zone |-> pz[i].zone,
         state |-> zone_state(pz[i], global_latest_is_delete, comparator_ts),
         latest |-> pz[i].latest,
         error |-> IF truthy(pz[i].error) THEN pz[i].error ELSE None]]

\* app.py 191-197
consistent_verdict(per_zone_list) ==
    LET any_error == \E i \in 1..Len(per_zone_list) : IsSome(per_zone_list[i].error)
        etags == {Val(Val(per_zone_list[i].latest).etag) :
                    i \in {j \in 1..Len(per_zone_list) :
                             /\ IsSome(per_zone_list[j].latest)
                             /\ Val(per_zone_list[j].latest).type # "DeleteMarker"
                             /\ IsSome(Val(per_zone_list[j].latest).etag)
                             /\ Val(Val(per_zone_list[j].latest).etag) # <<>>}}
    IN Cardinality(etags) = 1 /\ ~any_error

\* app.py 151-204
report(pz, candidates, currentZone) ==
    LET best == find_best_version(candidates, FALSE)
        global_latest_is_delete == IsSome(best) /\ Val(best).entry.IsDeleteMarker
        recommended_download == find_best_version(candidates, TRUE)
        comparator_ts == IF IsSome(best)
                         THEN Some(format_datetime_iso(Val(best).entry.LastModified))
                         ELSE None
        per_zone_list == classify(pz, global_latest_is_delete, comparator_ts)
    IN [consistent |-> consistent_verdict(per_zone_list),
        per_zone |-> per_zone_list,
        recommended_download_zone |->
            IF IsSome(recommended_download) THEN Some(Val(recommended_download).zone)
            ELSE None,
        current_zone_latest_is_delete_marker |-> current_zone_flag(pz, currentZone)]

Idle == pc = "idle"

NoSel == [key |-> RequestKey, resp |-> [Versions |-> <<>>, DeleteMarkers |-> <<>>],
          latest |-> None, done |-> FALSE]

\* A request starts with fresh locals.
Fresh ==
    /\ idx' = 1
    /\ per_zone' = <<>>
    /\ latest_candidates' = <<>>
    /\ global_latest' = None
    /\ fetch_log' = <<>>

\* app.py 118-123: the route is entered; a request with no bucket ends here.
consistency_check ==
    /\ Idle
    /\ \E currentZone \in RequestZones, bucket \in RequestBuckets :
         /\ request' = [op |-> "consistency_check", zone |-> Some(currentZone),
                        key |-> Some(RequestKey)]
         /\ IF bucket_or_default(bucket) = None
            THEN pc' = "done" /\ response' = NoBucket
            ELSE pc' = "fetch" /\ response' = None
    /\ Fresh
    /\ UNCHANGED <<S3_ZONES, DEFAULT_BUCKET, sel>>

InLoop == pc = "fetch" /\ idx <= Len(S3_ZONES)

\* What app.py 132-140 can make of the store's answers to the request: the
\* loop reads an answer only through this. IsLatest, which the route copies
\* out and never reads, is taken as set here; SpecSel lets it vary.
ZoneLatests ==
    {zone_latest(resp, RequestKey) :
        resp \in StoreResponses(RequestKey, MaxRecs, {TRUE})}

\* app.py 125-147: one turn of the zone loop, the store answering.
fetch_zone ==
    /\ InLoop
    /\ \E latest \in ZoneLatests :
         LET zone_name == S3_ZONES[idx].name
         IN /\ per_zone' = dict_set(per_zone, zone_name,
                                    [zone |-> zone_name,
                                     latest |-> entry_to_brief(latest),
                                     error |-> None])
            /\ latest_candidates' =
                 IF IsSome(latest)
                 THEN Append(latest_candidates, [zone |-> zone_name, entry |-> Val(latest)])
                 ELSE latest_candidates
            /\ fetch_log' = Append(fetch_log, [failed |-> FALSE, latest |-> latest])
    /\ idx' = idx + 1
    /\ UNCHANGED <<S3_ZONES, DEFAULT_BUCKET, pc, request, global_latest, response, sel>>

\* app.py 148-149: one turn of the zone loop, the store call raising ClientError.
fetch_zone_client_error ==
    /\ InLoop
    /\ \E e_response \in ErrorResponses :
         LET zone_name == S3_ZONES[idx].name IN
         per_zone' = dict_set(per_zone, zone_name,
                              [zone |-> zone_name,
                               latest |-> None,
                               error |-> Some(error_message(e_response))])
    /\ fetch_log' = Append(fetch_log, [failed |-> TRUE, latest |-> None])
    /\ idx' = idx + 1
    /\ UNCHANGED <<S3_ZONES, DEFAULT_BUCKET, pc, request, latest_candidates,
                   global_latest, response, sel>>

\* app.py 127-149: the store call raising anything that is not a ClientError
\* (botocore's connection and timeout errors are BotoCoreError): no except
\* clause takes it, the route ends and the framework answers 500.
fetch_zone_other_error ==
    /\ InLoop
    /\ pc' = "raised"
    /\ response' = Reply(500, [detail |-> "Internal Server Error"])
    /\ fetch_log' = Append(fetch_log, [failed |-> TRUE, latest |-> None])
    /\ UNCHANGED <<S3_ZONES, DEFAULT_BUCKET, request, idx, per_zone, latest_candidates,
                   global_latest, sel>>

\* app.py 151-204: after the loop.
reconcile ==
    /\ pc = "fetch" /\ idx > Len(S3_ZONES)
    /\ global_latest' = find_best_version(latest_candidates, FALSE)
    /\ response' = Reply(200, report(per_zone, latest_candidates, Val(request.zone)))
    /\ pc' = "done"
    /\ UNCHANGED <<S3_ZONES, DEFAULT_BUCKET, request, idx, per_zone, latest_candidates,
                   fetch_log, sel>>

\* The answer is sent and the request's locals are gone; the next request
\* finds the service as it started.
respond ==
    /\ pc \in {"done", "raised"}
    /\ pc' = "idle"
    /\ request' = [op |-> "none", zone |-> None, key |-> None]
    /\ response' = None
    /\ Fresh
    /\ UNCHANGED <<S3_ZONES, DEFAULT_BUCKET, sel>>

\* What a store call of the single-zone routes can do: answer, raise
\* ClientError, or raise something else.
StoreOutcomes == {[kind |-> "ok", e_response |-> [Error |-> None]]}
                 \cup {[kind |-> "ClientError", e_response |-> e] : e \in ErrorResponses}
                 \cup {[kind |-> "other", e_response |-> [Error |-> None]]}

\* try: ... except ClientError as e: raise HTTPException(500, Message)
store_reply(outcome, body) ==
    CASE outcome.kind = "ok" -> Reply(200, body)
      [] outcome.kind = "ClientError" ->
            Reply(500, [detail |-> error_message(outcome.e_response)])
      [] OTHER -> Reply(500, [detail |-> "Internal Server Error"])

\* if prefix and not prefix.endswith("/"): prefix = prefix + "/"
Prefixes == {"", "foo", "foo/"}
normalize_prefix(prefix) == IF prefix = "foo" THEN "foo/" ELSE prefix

\* A single-zone route has answered.
Answered(op, zone, key, reply) ==
    /\ Idle
    /\ request' = [op |-> op, zone |-> zone, key |-> key]
    /\ response' = reply
    /\ pc' = "done"
    /\ Fresh
    /\ UNCHANGED <<S3_ZONES, DEFAULT_BUCKET, sel>>

\* app.py 40-103. The folders and items of the listing are the store's pages
\* copied out; the answer keeps the normalised prefix.
list_objects ==
    \E zone \in RequestZones, prefix \in Prefixes, bucket \in RequestBuckets,
       outcome \in StoreOutcomes :
        Answered("list_objects", Some(zone), None,
                 IF bucket_or_default(bucket) = None THEN NoBucket
                 ELSE IF find_zone_url(S3_ZONES, zone).status = 404
                      THEN Reply(404, [detail |-> "Zone not found"])
                      ELSE store_reply(outcome, [prefix |-> normalize_prefix(prefix)]))

\* The zone and key a presign payload may carry: payload.get() gives None for a
\* missing one.
PayloadZones == {None} \cup {Some(z) : z \in RequestZones}
PayloadKeys == {None, Some(RequestKey)}

\* app.py 214-234 and 245-267: both presign routes take the same steps.
presign(op, method) ==
    \E zone \in PayloadZones, key \in PayloadKeys, bucket \in RequestBuckets,
       outcome \in StoreOutcomes :
        Answered(op, zone, key,
                 IF bucket_or_default(bucket) = None THEN NoBucket
                 ELSE IF ~truthy(zone) \/ ~truthy(key)
                      THEN Reply(400, [detail |-> "Missing 'zone' or 'key'"])
                      ELSE IF find_zone_url(S3_ZONES, Val(zone)).status = 404
                           THEN Reply(404, [detail |-> "Zone not found"])
                           ELSE store_reply(outcome,
                                    [method |-> method,
                                     url |-> find_zone_url(S3_ZONES, Val(zone)).url]))

\* app.py 207-234
presign_download == presign("presign_download", "get_object")

\* app.py 237-267
presign_upload == presign("presign_upload", "put_object")

\* app.py 270-293
delete_object ==
    \E zone \in RequestZones, bucket \in RequestBuckets, outcome \in StoreOutcomes :
        Answered("delete_object", Some(zone), Some(RequestKey),
                 IF bucket_or_default(bucket) = None THEN NoBucket
                 ELSE IF find_zone_url(S3_ZONES, zone).status = 404
                      THEN Reply(404, [detail |-> "Zone not found"])
                      ELSE store_reply(outcome, [status |-> "ok"]))

\* ------------------------------------------------------- specifications
NoRequest == [op |-> "none", zone |-> None, key |-> None]

Start(settings) ==
    /\ S3_ZONES \in {_parse_zones(s) : s \in settings}
    /\ DEFAULT_BUCKET \in {None, Some("bucket")}
    /\ pc = "idle"
    /\ request = NoRequest
    /\ idx = 1
    /\ per_zone = <<>>
    /\ latest_candidates = <<>>
    /\ global_latest = None
    /\ response = None
    /\ fetch_log = <<>>

\* The service started with a registry of distinctly named zones, as the
\* data model asks of a registry (a zone's name identifies it).
Init == Start(ExampleSettings) /\ sel = NoSel

\* The service started with any setting _parse_zones accepts.
InitCfg == Start(AllSettings) /\ sel = NoSel

Next ==
    \/ consistency_check
    \/ fetch_zone
    \/ fetch_zone_client_error
    \/ fetch_zone_other_error
    \/ reconcile
    \/ respond
    \/ list_objects
    \/ presign_download
    \/ presign_upload
    \/ delete_object

Spec == Init /\ [][Next]_vars

SpecCfg == InitCfg /\ [][Next]_vars

\* The per-zone selection of app.py 132-140 as a function of the store's
\* answer: every answer of at most SelMaxRecs records, for either key.
InitSel ==
    /\ Start({SubSeq(ExampleParts, 1, 1)})
    /\ sel \in UNION {[key : {k}, resp : StoreResponses(k, SelMaxRecs, BOOLEAN),
                       latest : {None}, done : {FALSE}] : k \in Keys}

select_latest ==
    /\ ~sel.done
    /\ sel' = [sel EXCEPT !.latest = zone_latest(sel.resp, sel.key), !.done = TRUE]
    /\ UNCHANGED <<S3_ZONES, DEFAULT_BUCKET, pc, request, idx, per_zone,
                   latest_candidates, global_latest, response, fetch_log>>

NextSel == select_latest

SpecSel == InitSel /\ [][NextSel]_vars

\* --------------------------------------------------------------- claims
\* What the claims speak of, read off the history of the store's answers
\* (fetch_log) and the registry, not off the route's own locals.
Finished ==
    /\ pc = "done"
    /\ request.op = "consistency_check"
    /\ IsSome(response)
    /\ Val(response).status = 200

Report == Val(response).body
Zones == 1..Len(S3_ZONES)
Failed(i) == fetch_log[i].failed
HasLatest(i) == ~fetch_log[i].failed /\ IsSome(fetch_log[i].latest)
Latest(i) == Val(fetch_log[i].latest)
HasVersion(i) == HasLatest(i) /\ ~Latest(i).IsDeleteMarker
HasMarker(i) == HasLatest(i) /\ Latest(i).IsDeleteMarker
WholeSecond(t) == t \div TicksPerSecond

\* The report's elements for zone i, by its name.
Entries(i) == {e \in Range(Report.per_zone) : e.zone = S3_ZONES[i].name}

\* Zone i holds the maximum raw timestamp among the zones of S, and is the
\* first in configured order to do so.
FirstMax(i, S) ==
    /\ i \in S
    /\ \A j \in S : Latest(j).LastModified <= Latest(i).LastModified
    /\ \A j \in S : j < i => Latest(j).LastModified < Latest(i).LastModified

WithLatest == {i \in Zones : HasLatest(i)}
WithVersion == {i \in Zones : HasVersion(i)}
GlobalIsMarker == \E i \in WithLatest : FirstMax(i, WithLatest) /\ HasMarker(i)

\* C1: consistent is true exactly when no zone's fetch failed and the ETags of
\* the zones whose latest entry is a version are one value, and at least one.
C1_ConsistentIff ==
    Finished =>
        (Report.consistent <=>
            /\ \A i \in Zones : ~Failed(i)
            /\ Cardinality({strip(Val(Latest(i).ETag)) : i \in WithVersion}) = 1)

\* C2: the global latest is the first zone's entry among those of maximum raw
\* timestamp, and a zone with an entry is Latest exactly when its timestamp
\* and the global latest's fall in the same whole second, Outdated otherwise.
C2_LatestBySecond ==
    Finished =>
        /\ IF WithLatest = {} THEN global_latest = None
           ELSE \E b \in WithLatest :
                  /\ FirstMax(b, WithLatest)
                  /\ global_latest = Some([zone |-> S3_ZONES[b].name, entry |-> Latest(b)])
        /\ \A i \in WithLatest :
             /\ Entries(i) # {}
             /\ \A e \in Entries(i) :
                  /\ e.state \in {"Latest", "Outdated"}
                  /\ e.state = "Latest" <=>
                       WholeSecond(Latest(i).LastModified)
                           = WholeSecond(Val(global_latest).entry.LastModified)

\* Two zones whose raw timestamps differ inside one second: the later one is
\* the global latest and the earlier one is Latest all the same.
C2_Witness ==
    /\ Finished
    /\ \E i, j \in WithLatest :
         /\ i < j
         /\ Latest(i).LastModified < Latest(j).LastModified
         /\ WholeSecond(Latest(i).LastModified) = WholeSecond(Latest(j).LastModified)
         /\ FirstMax(j, WithLatest)
         /\ \E e \in Entries(i) : e.state = "Latest"

\* C3: the recommended zone is the first zone of maximum raw timestamp among
\* the zones whose latest entry is a version, and null exactly when there is
\* no such zone.
C3_Recommended ==
    Finished =>
        IF WithVersion = {} THEN Report.recommended_download_zone = None
        ELSE \E b \in WithVersion :
               /\ FirstMax(b, WithVersion)
               /\ Report.recommended_download_zone = Some(S3_ZONES[b].name)

\* A delete marker is the global latest, and an older version elsewhere is
\* recommended.
C3_Witness ==
    /\ Finished
    /\ GlobalIsMarker
    /\ \E b \in WithVersion : Report.recommended_download_zone = Some(S3_ZONES[b].name)

\* C4: a zone that answered and has no entry is Latest when the global latest
\* is a delete marker and Missing when it is not, or when there is none.
C4_NoEntryState ==
    Finished =>
        \A i \in Zones :
            (~Failed(i) /\ ~HasLatest(i)) =>
                /\ Entries(i) # {}
                /\ \A e \in Entries(i) :
                     e.state = IF GlobalIsMarker THEN "Latest" ELSE "Missing"

\* A zone without an entry is Latest because another zone's delete marker is
\* the global latest.
C4_Witness ==
    /\ Finished
    /\ GlobalIsMarker
    /\ \E i \in Zones : ~Failed(i) /\ ~HasLatest(i) /\ \E e \in Entries(i) : e.state = "Latest"

\* C5: a failing store call never makes consistency_check raise: every zone is
\* processed and the report gives the failed zone an error description and a
\* null latest.
C5_NeverRaises ==
    /\ request.op = "consistency_check" => pc # "raised"
    /\ Finished =>
         /\ Len(fetch_log) = Len(S3_ZONES)
         /\ \A i \in Zones :
              Failed(i) => /\ Entries(i) # {}
                           /\ \A e \in Entries(i) : IsSome(e.error) /\ e.latest = None

\* The state the classifier's rules give a zone that answered.
ExpectedState(i) ==
    IF ~HasLatest(i) THEN (IF GlobalIsMarker THEN "Latest" ELSE "Missing")
    ELSE IF \E b \in WithLatest :
              /\ FirstMax(b, WithLatest)
              /\ WholeSecond(Latest(i).LastModified) = WholeSecond(Latest(b).LastModified)
         THEN "Latest" ELSE "Outdated"

\* C6: a zone whose fetch failed is Unknown and makes consistent false,
\* whatever the error description; the other zones keep their computed states.
C6_FailedIsUnknown ==
    Finished =>
        /\ \A i \in Zones :
             Failed(i) => /\ ~Report.consistent
                          /\ Entries(i) # {}
                          /\ \A e \in Entries(i) : e.state = "Unknown"
        /\ \A i \in Zones :
             ~Failed(i) => \A e \in Entries(i) : e.state = ExpectedState(i)

\* C7: per_zone holds one element for each configured zone, in configured
\* order.
C7_OnePerZone ==
    Finished =>
        /\ Len(Report.per_zone) = Len(S3_ZONES)
        /\ \A i \in Zones : Report.per_zone[i].zone = S3_ZONES[i].name

\* C8: a request naming a zone that is not in the registry is rejected at
\* once with a validation error, by every route that takes a zone.
C8_UnknownZoneRejected ==
    (IsSome(request.zone) /\ Val(request.zone) \notin ZoneNames(S3_ZONES)) =>
        /\ pc # "fetch"
        /\ pc = "done" => Val(response).status \in {400, 404}

\* C9: the flag is true exactly when the current zone answered and its own
\* latest entry is a delete marker.
C9_CurrentZoneFlag ==
    Finished =>
        (Report.current_zone_latest_is_delete_marker <=>
            \E i \in Zones : /\ S3_ZONES[i].name = Val(request.zone)
                             /\ HasMarker(i))

\* The current zone's latest is a delete marker while the global latest is a
\* version of another zone.
C9_Witness ==
    /\ Finished
    /\ Report.current_zone_latest_is_delete_marker
    /\ ~GlobalIsMarker
    /\ \E i \in Zones : S3_ZONES[i].name = Val(request.zone) /\ HasMarker(i)

\* The records of the store's answer that bear exactly the requested key,
\* versions and delete markers alike.
ExactKeyRecords ==
    {r \in Range(tag(sel.resp.Versions, FALSE)) \cup Range(tag(sel.resp.DeleteMarkers, TRUE)) :
        r.Key = sel.key}

\* C10: a zone's latest entry is a record of maximum timestamp among the
\* versions and delete markers of exactly the requested key, and is absent
\* exactly when there is none; IsLatest plays no part.
C10_ZoneLatest ==
    sel.done =>
        /\ sel.latest = None <=> ExactKeyRecords = {}
        /\ IsSome(sel.latest) =>
             /\ Val(sel.latest) \in ExactKeyRecords
             /\ \A r \in ExactKeyRecords : r.LastModified <= Val(sel.latest).LastModified

\* The answer holds a newer record of a longer key that the store flags as
\* latest; the entry chosen is the older one of the exact key, not flagged.
C10_Witness ==
    /\ sel.done
    /\ IsSome(sel.latest)
    /\ ~Val(sel.latest).IsLatest
    /\ \E r \in Range(sel.resp.Versions) \cup Range(sel.resp.DeleteMarkers) :
         /\ r.Key # sel.key
         /\ r.IsLatest
         /\ r.LastModified > Val(sel.latest).LastModified

====
